---- MODULE Spec2Model ----
(***************************************************************************)
(* wacksy: indexing a WARC file into CDXJ and pages.jsonl.                 *)
(*                                                                         *)
(* Text is modelled byte for byte: a string is a sequence of one-character *)
(* strings, a file is the sequence of its bytes, and the scanner, the      *)
(* header parser and the two writers work on those sequences the way the   *)
(* Rust code works on &str and BufRead.  A gzip member is its decompressed *)
(* bytes paired with its compressed size (DEFLATE itself is flate2's).     *)
(***************************************************************************)
EXTENDS Integers, Sequences, FiniteSets, TLC

VARIABLES
    file,         \* the file at warc_file_path: name, existence, records laid out in it
    pc,           \* where the run is: "open", "scan", "indexed", "panic"
    file_offset,  \* WarcReader.file_offset
    file_size,    \* WarcReader.file_size
    file_name,    \* WarcReader.file_name
    is_gzip,      \* WarcReader.is_gzip
    scanned,      \* the items WarcReader::next has yielded so far, in order
    index,        \* indexer's Vec<IndexRecord>
    cdxj,         \* what to_cdxj_string(index) returned, once called
    pages,        \* what to_pages_json_string(index) returned, once called
    input_url,    \* a URL given to the SURT encoders
    surt_indexer, \* what create_surt(input_url) of indexer.rs gave, once called
    surt_rs,      \* what create_surt(input_url) of indexer/surt.rs gave, once called
    searchable,   \* what RecordUrl::new then as_searchable_string gave on input_url, once called
    data_package, \* what DataPackage::new(warc_file_path, index) returned, once called
    argument,     \* main: whether the path argument was supplied
    exit_status,  \* main: the exit status of the process, -1 while it runs
    written,      \* main: whether tests/output.wacz has been written
    page_input,   \* the record and record_count given to PageRecord::new
    page_record   \* what PageRecord::new returned, once called

\* The variables of the SURT encoders, which a run of the indexer leaves alone
encoders == <<input_url, surt_indexer, surt_rs, searchable>>

\* The variables of main, which the library leaves alone
cli == <<argument, exit_status, written>>

\* The variables of PageRecord::new
page == <<page_input, page_record>>

vars == <<file, pc, file_offset, file_size, file_name, is_gzip, scanned, index, cdxj, pages,
          input_url, surt_indexer, surt_rs, searchable, data_package, argument, exit_status,
          written, page_input, page_record>>

(***************************************************************************)
(* Bounds of the model.                                                    *)
(***************************************************************************)
MaxRecords == 2
BodyLen == 400

(***************************************************************************)
(* &str and String operations of the standard library, as the code uses    *)
(* them.                                                                   *)
(***************************************************************************)
Min(S) == CHOOSE x \in S : \A y \in S : x <= y
Max(S) == CHOOSE x \in S : \A y \in S : x >= y

\* str::starts_with
StartsWith(s, p) == Len(s) >= Len(p) /\ SubSeq(s, 1, Len(p)) = p

\* char::is_whitespace on the ASCII range
IsWhitespace(c) == c \in {" ", "\t", "\n", "\r"}

\* str::trim_start, str::trim_end, str::trim
TrimStart(s) ==
    LET keep == {i \in 1..Len(s) : ~IsWhitespace(s[i])}
    IN  IF keep = {} THEN <<>> ELSE SubSeq(s, Min(keep), Len(s))

TrimEnd(s) ==
    LET keep == {i \in 1..Len(s) : ~IsWhitespace(s[i])}
    IN  IF keep = {} THEN <<>> ELSE SubSeq(s, 1, Max(keep))

Trim(s) == TrimEnd(TrimStart(s))

\* str::find(char) as a 1-based position, 0 when the character is absent
Find(s, c) ==
    LET at == {i \in 1..Len(s) : s[i] = c}
    IN  IF at = {} THEN 0 ELSE Min(at)

\* str::split_once(char)
SplitOnce(s, c) ==
    LET at == Find(s, c)
    IN  IF at = 0 THEN [some |-> FALSE, head |-> <<>>, tail |-> <<>>]
        ELSE [some |-> TRUE, head |-> SubSeq(s, 1, at - 1), tail |-> SubSeq(s, at + 1, Len(s))]

\* str::split(char)
RECURSIVE Split(_, _)
Split(s, c) ==
    LET at == Find(s, c)
    IN  IF at = 0 THEN <<s>>
        ELSE <<SubSeq(s, 1, at - 1)>> \o Split(SubSeq(s, at + 1, Len(s)), c)

\* str::lines: split at "\n", a "\r" before it belongs to the line ending,
\* and no empty line is produced after a final "\n"
RECURSIVE Lines(_)
Lines(s) ==
    IF s = <<>> THEN <<>>
    ELSE LET at == Find(s, "\n")
             raw == IF at = 0 THEN s ELSE SubSeq(s, 1, at - 1)
             line == IF at # 0 /\ raw # <<>> /\ raw[Len(raw)] = "\r"
                     THEN SubSeq(raw, 1, Len(raw) - 1) ELSE raw
         IN  <<line>> \o (IF at = 0 THEN <<>> ELSE Lines(SubSeq(s, at + 1, Len(s))))

UpperCase == <<"A","B","C","D","E","F","G","H","I","J","K","L","M","N","O","P","Q","R","S","T","U","V","W","X","Y","Z">>
LowerCase == <<"a","b","c","d","e","f","g","h","i","j","k","l","m","n","o","p","q","r","s","t","u","v","w","x","y","z">>

\* str::to_ascii_lowercase
ToAsciiLowercase(s) ==
    [i \in 1..Len(s) |->
        IF \E k \in 1..26 : UpperCase[k] = s[i]
        THEN LowerCase[CHOOSE k \in 1..26 : UpperCase[k] = s[i]]
        ELSE s[i]]

DecimalDigits == <<"0","1","2","3","4","5","6","7","8","9">>
IsDigit(c) == \E k \in 1..10 : DecimalDigits[k] = c
DigitValue(c) == (CHOOSE k \in 1..10 : DecimalDigits[k] = c) - 1

RECURSIVE DigitsValue(_)
DigitsValue(s) ==
    IF s = <<>> THEN 0
    ELSE 10 * DigitsValue(SubSeq(s, 1, Len(s) - 1)) + DigitValue(s[Len(s)])

\* str::parse::<usize>: an optional "+", then one or more decimal digits
ParseUsize(s) ==
    LET digits == IF s # <<>> /\ s[1] = "+" THEN Tail(s) ELSE s
    IN  IF digits # <<>> /\ \A i \in 1..Len(digits) : IsDigit(digits[i])
        THEN [ok |-> TRUE, v |-> DigitsValue(digits)]
        ELSE [ok |-> FALSE, v |-> 0]

\* Display of an unsigned integer
RECURSIVE Decimal(_)
Decimal(n) ==
    IF n < 10 THEN <<DecimalDigits[n + 1]>>
    ELSE Decimal(n \div 10) \o <<DecimalDigits[(n % 10) + 1]>>

\* Concatenation of a sequence of strings
RECURSIVE Concat(_)
Concat(ss) == IF ss = <<>> THEN <<>> ELSE Head(ss) \o Concat(Tail(ss))

RECURSIVE Sum(_)
Sum(ns) == IF ns = <<>> THEN 0 ELSE Head(ns) + Sum(Tail(ns))

CRLF == <<"\r","\n">>

(***************************************************************************)
(* The input.  A file holds WARC records one after the other; a record is  *)
(* described by the text of its parts, and its bytes follow from them.  In *)
(* a .gz file every record is one gzip member of d.csize compressed bytes. *)
(***************************************************************************)
HeaderLine(name, value) ==
    IF value = <<>> THEN <<>> ELSE name \o <<":"," ">> \o value \o CRLF

WarcHeaderBlock(d) ==
    Concat(<<d.version, CRLF,
             HeaderLine(<<"W","A","R","C","-","T","y","p","e">>, d.wtype),
             HeaderLine(<<"W","A","R","C","-","T","a","r","g","e","t","-","U","R","I">>, d.uri),
             HeaderLine(<<"W","A","R","C","-","D","a","t","e">>, d.date),
             HeaderLine(<<"W","A","R","C","-","P","a","y","l","o","a","d","-","D","i","g","e","s","t">>, d.digest),
             HeaderLine(<<"C","o","n","t","e","n","t","-","T","y","p","e">>, d.ctype),
             HeaderLine(<<"C","o","n","t","e","n","t","-","L","e","n","g","t","h">>, d.length),
             d.extra,
             CRLF>>)

DropLast(s, n) == SubSeq(s, 1, Len(s) - n)

\* The bytes of a record as the file holds them: header block, payload and
\* the two CRLF that end a record, less the d.cut last bytes when the record
\* was cut short
RecordBytes(d) == DropLast(Concat(<<WarcHeaderBlock(d), d.payload, CRLF, CRLF>>), d.cut)

\* The bytes a record takes in the file together with the bytes d.more that
\* follow it in the same gzip member
MemberBytes(d) == RecordBytes(d) \o d.more

\* An HTTP response message: status line, Content-Type (when there is one), body
HttpMessage(status, mime, body) ==
    Concat(<<<<"H","T","T","P","/","1",".","1"," ">>, status, <<" ","O","K">>, CRLF,
             HeaderLine(<<"C","o","n","t","e","n","t","-","T","y","p","e">>, mime),
             CRLF, body>>)

\* Path::extension: what follows the last "." of the file name
Extension(name) ==
    LET dots == {i \in 2..Len(name) : name[i] = "."}
    IN  IF dots = {} THEN <<>> ELSE SubSeq(name, Max(dots) + 1, Len(name))

StoredAsGzip(f) == Extension(f.name) = <<"g","z">>

\* The bytes of a plain file
PlainBytes(f) == Concat([i \in 1..Len(f.recs) |-> MemberBytes(f.recs[i])])

\* Where gzip member k starts in the compressed file
MemberStart(f, k) == Sum([i \in 1..(k - 1) |-> f.recs[i].csize])

\* fs::metadata().len()
FileLen(f) ==
    IF StoredAsGzip(f) THEN MemberStart(f, Len(f.recs) + 1) ELSE Len(PlainBytes(f))

(***************************************************************************)
(* IndexRecord and the header parser.                                      *)
(***************************************************************************)
IndexRecordNew ==
    [offset |-> 0, content_length |-> 0, header_length |-> 0,
     digest |-> <<>>, timestamp |-> <<>>, record_type |-> "None",
     url |-> <<>>, is_page |-> FALSE, is_http |-> FALSE,
     http_status_code |-> 0, mime_type |-> <<>>, file_name |-> <<>>]

\* BufRead::read_line from position pos (1-based): the position of the last
\* byte of the line, which is its "\n" or the end of input
RECURSIVE LineEnd(_, _)
LineEnd(bytes, pos) ==
    IF pos >= Len(bytes) THEN Len(bytes)
    ELSE IF bytes[pos] = "\n" THEN pos
    ELSE LineEnd(bytes, pos + 1)

\* read_header_block: lines are read from pos until one of exactly the two
\* bytes "\r\n"; None when the input ends first.  next is the position the
\* reader is left at.
RECURSIVE ReadHeaderLines(_, _, _)
ReadHeaderLines(bytes, start, pos) ==
    LET end == LineEnd(bytes, pos)
        bytes_read == IF pos > Len(bytes) THEN 0 ELSE end - pos + 1
    IN  IF bytes_read = 0
        THEN [some |-> FALSE, buf |-> <<>>, next |-> pos]
        ELSE IF bytes_read = 2 /\ SubSeq(bytes, end - 1, end) = CRLF
        THEN [some |-> TRUE, buf |-> SubSeq(bytes, start, end), next |-> end + 1]
        ELSE ReadHeaderLines(bytes, start, end + 1)

read_header_block(bytes, pos) == ReadHeaderLines(bytes, pos, pos)

WarcRecordType(value) ==
    CASE value = <<"r","e","s","p","o","n","s","e">> -> "Response"
      [] value = <<"r","e","v","i","s","i","t">> -> "Revisit"
      [] value = <<"r","e","s","o","u","r","c","e">> -> "Resource"
      [] value = <<"m","e","t","a","d","a","t","a">> -> "Metadata"
      [] OTHER -> "None"

\* process_headers works on the record under construction; panic is set
\* when one of its unwraps (or its todo!) fails
Parsing(rec) == [panic |-> FALSE, rec |-> rec]
Panicked(rec) == [panic |-> TRUE, rec |-> rec]

\* "content-length": value.parse::<usize>().unwrap()
ContentLengthField(acc, parsed) ==
    IF parsed.ok THEN [acc EXCEPT !.rec.content_length = parsed.v] ELSE Panicked(acc.rec)

\* The match on the key of a WARC header field
WarcField(acc, key, value) ==
    CASE key = <<"c","o","n","t","e","n","t","-","l","e","n","g","t","h">> -> ContentLengthField(acc, ParseUsize(value))
      [] key = <<"w","a","r","c","-","p","a","y","l","o","a","d","-","d","i","g","e","s","t">> -> [acc EXCEPT !.rec.digest = value]
      [] key = <<"w","a","r","c","-","d","a","t","e">> -> [acc EXCEPT !.rec.timestamp = value]
      [] key = <<"w","a","r","c","-","t","a","r","g","e","t","-","u","r","i">> -> [acc EXCEPT !.rec.url = value]
      [] key = <<"w","a","r","c","-","t","y","p","e">> -> [acc EXCEPT !.rec.record_type = WarcRecordType(value)]
      [] key = <<"c","o","n","t","e","n","t","-","t","y","p","e">> ->
            IF Len(value) >= 16 /\ SubSeq(value, 1, 16) = <<"a","p","p","l","i","c","a","t","i","o","n","/","h","t","t","p">>
            THEN [acc EXCEPT !.rec.is_http = TRUE]
            ELSE acc
      [] OTHER -> acc

\* The HTTP arm: the content-type is that of the response body
HttpField(acc, key, value) ==
    IF key = <<"c","o","n","t","e","n","t","-","t","y","p","e">> THEN [acc EXCEPT !.rec.mime_type = value] ELSE acc

\* split_once(':').unwrap(), the lowercased key and the trimmed value
SplitField(acc, header_type, split_field) ==
    IF ~split_field.some THEN Panicked(acc.rec)
    ELSE IF header_type = "Warc"
    THEN WarcField(acc, ToAsciiLowercase(split_field.head), Trim(split_field.tail))
    ELSE HttpField(acc, ToAsciiLowercase(split_field.head), Trim(split_field.tail))

\* One turn of the loop over the header fields
HeaderField(acc, header_type, header_field) ==
    IF acc.panic THEN acc ELSE SplitField(acc, header_type, SplitOnce(header_field, ":"))

RECURSIVE HeaderFields(_, _, _, _)
HeaderFields(acc, header_type, fields, i) ==
    IF i > Len(fields) THEN acc
    ELSE HeaderFields(HeaderField(acc, header_type, fields[i]), header_type, fields, i + 1)

\* Iterator::skip(1)
Skip1(items) == IF items = <<>> THEN <<>> ELSE Tail(items)

\* buffer.get(..4).unwrap() and the match on it ("todo": the todo!() arm)
HeaderType(buffer) ==
    CASE Len(buffer) >= 4 /\ SubSeq(buffer, 1, 4) = <<"W","A","R","C">> -> "Warc"
      [] Len(buffer) >= 4 /\ SubSeq(buffer, 1, 4) = <<"H","T","T","P">> -> "Http"
      [] OTHER -> "todo"

\* raw_status_code.parse::<usize>().unwrap()
StatusCode(parsed_record, parsed) ==
    IF parsed.ok THEN Parsing([parsed_record EXCEPT !.http_status_code = parsed.v])
    ELSE Panicked(parsed_record)

\* The status code of an HTTP block: buffer.get(9..12).unwrap()
FirstLine(parsed_record, buffer, header_type) ==
    CASE header_type = "Warc" -> Parsing(parsed_record)
      [] header_type = "Http" /\ Len(buffer) >= 12 ->
            StatusCode(parsed_record, ParseUsize(SubSeq(buffer, 10, 12)))
      [] OTHER -> Panicked(parsed_record)

\* is_page as process_headers derives it
IsPage(mime_type, http_status_code) ==
    mime_type = <<"t","e","x","t","/","h","t","m","l">> /\ http_status_code >= 200 /\ http_status_code < 299

SetIsPage(acc) ==
    IF ~acc.panic /\ IsPage(acc.rec.mime_type, acc.rec.http_status_code)
    THEN [acc EXCEPT !.rec.is_page = TRUE]
    ELSE acc

ProcessTyped(parsed_record, buffer, header_type) ==
    SetIsPage(HeaderFields(FirstLine(parsed_record, buffer, header_type),
                           header_type, Skip1(Lines(Trim(buffer))), 1))

process_headers(parsed_record, buffer) ==
    ProcessTyped(parsed_record, buffer, HeaderType(buffer))

(***************************************************************************)
(* WarcReader::next.  The result is Some(record), None, or a panic (an     *)
(* unwrap that failed), with the file_offset the reader is left with.      *)
(***************************************************************************)
Yield(tag, rec, offset) == [tag |-> tag, rec |-> rec, file_offset |-> offset]

\* The same condition without the test of the record type
HasHttpBlock_AnyType(rec) == rec.is_http

\* The record contains an HTTP resource
HasHttpBlock(rec) == rec.record_type \in {"Response", "Revisit"} /\ rec.is_http

\* The record once its HTTP header block is processed
HttpProcessed(http, offset) ==
    IF http.panic THEN Yield("Panic", http.rec, offset) ELSE Yield("Some", http.rec, offset)

\* let http_header_buffer = read_header_block(..)?; process_headers(..)
HttpBlock(rec, http_header_buffer, offset) ==
    IF ~http_header_buffer.some THEN Yield("None", rec, offset)
    ELSE HttpProcessed(process_headers(rec, http_header_buffer.buf), offset)

\* Gzip: the WARC header block is processed; the HTTP block is read from the
\* decompressed bytes that follow it
GzipProcessed(warc, byte_buffer, next, offset) ==
    IF warc.panic THEN Yield("Panic", warc.rec, offset)
    ELSE IF ~HasHttpBlock(warc.rec) THEN Yield("Some", warc.rec, offset)
    ELSE HttpBlock(warc.rec, read_header_block(byte_buffer, next), offset)

GzipHeader(parsed_record, byte_buffer, warc_header_buffer, offset) ==
    IF ~warc_header_buffer.some \/ ~StartsWith(warc_header_buffer.buf, <<"W","A","R","C","/","1",".","1">>)
    THEN Yield("None", parsed_record, offset)
    ELSE GzipProcessed(
            process_headers([parsed_record EXCEPT !.header_length = Len(warc_header_buffer.buf)],
                            warc_header_buffer.buf),
            byte_buffer, warc_header_buffer.next, offset)

\* The member when file_offset is left where it was
GzipMember_NoAdvance(parsed_record, byte_buffer, file_position, offset) ==
    GzipHeader(parsed_record, byte_buffer, read_header_block(byte_buffer, 1), offset)

\* The member is decompressed whole; bytes_read is the reader's position after
\* it minus the offset it started from
GzipMember(parsed_record, byte_buffer, file_position, offset) ==
    GzipHeader(parsed_record, byte_buffer, read_header_block(byte_buffer, 1),
               offset + (file_position - offset))

\* The gzip member that starts at a physical offset (none: GzDecoder fails)
MembersAt(f, offset) == {k \in 1..Len(f.recs) : MemberStart(f, k) = offset}

MemberK(f, parsed_record, offset, k) ==
    GzipMember(parsed_record, MemberBytes(f.recs[k]), MemberStart(f, k + 1), offset)

GzipNext(f, parsed_record, offset) ==
    IF MembersAt(f, offset) = {} THEN Yield("Panic", parsed_record, offset)
    ELSE MemberK(f, parsed_record, offset, CHOOSE k \in MembersAt(f, offset) : TRUE)

\* The step of a plain file when the 4 bytes that end a record are not added
PlainProcessed_NoTerminator(warc, bytes, next, offset) ==
    IF warc.panic THEN Yield("Panic", warc.rec, offset)
    ELSE IF ~HasHttpBlock(warc.rec)
    THEN Yield("Some", warc.rec, offset + warc.rec.header_length + warc.rec.content_length)
    ELSE HttpBlock(warc.rec, read_header_block(bytes, next),
                   offset + warc.rec.header_length + warc.rec.content_length)

\* The step of a plain file when the HTTP block is looked for behind the
\* record
PlainProcessed_ReadsBehind(warc, bytes, next, offset) ==
    IF warc.panic THEN Yield("Panic", warc.rec, offset)
    ELSE IF ~HasHttpBlock(warc.rec)
    THEN Yield("Some", warc.rec, offset + warc.rec.header_length + warc.rec.content_length + 4)
    ELSE HttpBlock(warc.rec, read_header_block(bytes, next + warc.rec.content_length + 4),
                   offset + warc.rec.header_length + warc.rec.content_length + 4)

\* Plain: the WARC header block is processed, file_offset moves past the
\* record, and the HTTP block is read from where the reader stands
PlainProcessed(warc, bytes, next, offset) ==
    IF warc.panic THEN Yield("Panic", warc.rec, offset)
    ELSE IF ~HasHttpBlock(warc.rec)
    THEN Yield("Some", warc.rec, offset + warc.rec.header_length + warc.rec.content_length + 4)
    ELSE HttpBlock(warc.rec, read_header_block(bytes, next),
                   offset + warc.rec.header_length + warc.rec.content_length + 4)

PlainHeader(parsed_record, bytes, warc_header_buffer, offset) ==
    IF ~warc_header_buffer.some \/ ~StartsWith(warc_header_buffer.buf, <<"W","A","R","C","/","1",".","1">>)
    THEN Yield("None", parsed_record, offset)
    ELSE PlainProcessed(
            process_headers([parsed_record EXCEPT !.header_length = Len(warc_header_buffer.buf)],
                            warc_header_buffer.buf),
            bytes, warc_header_buffer.next, offset)

PlainRecord(parsed_record, bytes, offset) ==
    PlainHeader(parsed_record, bytes, read_header_block(bytes, offset + 1), offset)

PlainNext(f, parsed_record, offset) == PlainRecord(parsed_record, PlainBytes(f), offset)

WarcReaderNext(f, name, gzip, offset, size) ==
    IF ~(size > offset)
    THEN Yield("None", [IndexRecordNew EXCEPT !.offset = offset, !.file_name = name], offset)
    ELSE IF gzip
    THEN GzipNext(f, [IndexRecordNew EXCEPT !.offset = offset, !.file_name = name], offset)
    ELSE PlainNext(f, [IndexRecordNew EXCEPT !.offset = offset, !.file_name = name], offset)

(***************************************************************************)
(* indexer: the filter of its loop.                                        *)
(***************************************************************************)
\* The filter without its mime_type condition
Retained_NoMimeCheck(index_record) ==
    /\ index_record.record_type # "None"
    /\ index_record.http_status_code # 0

Retained(index_record) ==
    /\ index_record.record_type # "None"
    /\ index_record.mime_type # <<>>
    /\ index_record.http_status_code # 0

(***************************************************************************)
(* The writers.                                                            *)
(***************************************************************************)
\* [&str]::join
RECURSIVE Join(_, _)
Join(parts, sep) ==
    IF Len(parts) = 0 THEN <<>>
    ELSE IF Len(parts) = 1 THEN parts[1]
    ELSE parts[1] \o sep \o Join(Tail(parts), sep)

Reverse(s) == [i \in 1..Len(s) |-> s[Len(s) + 1 - i]]

\* create_surt of indexer.rs: Some(key), None, or a panic (an unwrap failing)
SurtKey(url_split) ==
    IF ~url_split.some THEN [tag |-> "Panic", v |-> <<>>]
    ELSE [tag |-> "Some",
          v |-> Concat(<<Join(Reverse(Split(url_split.head, ".")), <<",">>), <<")","/">>,
                         url_split.tail>>)]

create_surt(url) ==
    CASE StartsWith(url, <<"h","t","t","p","s">>) ->
            IF Len(url) >= 8 THEN SurtKey(SplitOnce(SubSeq(url, 9, Len(url)), "/"))
            ELSE [tag |-> "Panic", v |-> <<>>]
      [] StartsWith(url, <<"h","t","t","p">>) /\ ~StartsWith(url, <<"h","t","t","p","s">>) ->
            IF Len(url) >= 7 THEN SurtKey(SplitOnce(SubSeq(url, 8, Len(url)), "/"))
            ELSE [tag |-> "Panic", v |-> <<>>]
      [] StartsWith(url, <<"u","r","n">>) -> [tag |-> "None", v |-> <<>>]
      [] OTHER -> [tag |-> "Panic", v |-> <<>>]

\* create_surt of indexer/surt.rs: the same steps with ? where indexer.rs
\* unwraps, so every failure is None
surt_rs_SurtKey(url_split) ==
    IF ~url_split.some THEN [tag |-> "None", v |-> <<>>]
    ELSE [tag |-> "Some",
          v |-> Concat(<<Join(Reverse(Split(url_split.head, ".")), <<",">>), <<")","/">>,
                         url_split.tail>>)]

surt_rs_create_surt(url) ==
    CASE StartsWith(url, <<"h","t","t","p","s">>) ->
            IF Len(url) >= 8 THEN surt_rs_SurtKey(SplitOnce(SubSeq(url, 9, Len(url)), "/"))
            ELSE [tag |-> "None", v |-> <<>>]
      [] StartsWith(url, <<"h","t","t","p">>) /\ ~StartsWith(url, <<"h","t","t","p","s">>) ->
            IF Len(url) >= 7 THEN surt_rs_SurtKey(SplitOnce(SubSeq(url, 8, Len(url)), "/"))
            ELSE [tag |-> "None", v |-> <<>>]
      [] OTHER -> [tag |-> "None", v |-> <<>>]

(***************************************************************************)
(* RecordUrl of indexer/record_url.rs.  Url::parse is the url crate's; it  *)
(* is modelled for URLs made of a scheme, "://", a host name and a path    *)
(* and query of unreserved characters, for scheme:opaque URLs and for text *)
(* without a scheme: the host is lowercased, an empty path becomes "/".    *)
(***************************************************************************)
\* Where "://" starts in s, 0 when it does not occur
FindSchemeSlashes(s) ==
    LET at == {i \in 1..(Len(s) - 2) : SubSeq(s, i, i + 2) = <<":","/","/">>}
    IN  IF at = {} THEN 0 ELSE Min(at)

\* After the host: the path and what follows it, "/" when there is none
PathOf(after) == IF after = <<>> THEN <<"/">> ELSE after

\* Url::parse on text whose first ":" is at colon (0: none), "://" at slashes
UrlParsed(s, colon, slashes, after) ==
    IF colon = 0 THEN [ok |-> FALSE, has_host |-> FALSE, host |-> <<>>, path |-> <<>>]
    ELSE IF slashes # colon
    THEN [ok |-> TRUE, has_host |-> FALSE, host |-> <<>>, path |-> SubSeq(s, colon + 1, Len(s))]
    ELSE [ok |-> TRUE, has_host |-> TRUE,
          host |-> ToAsciiLowercase(IF Find(after, "/") = 0 THEN after
                                    ELSE SubSeq(after, 1, Find(after, "/") - 1)),
          path |-> PathOf(IF Find(after, "/") = 0 THEN <<>>
                          ELSE SubSeq(after, Find(after, "/"), Len(after)))]

UrlParse(s) ==
    UrlParsed(s, Find(s, ":"), FindSchemeSlashes(s),
              SubSeq(s, FindSchemeSlashes(s) + 3, Len(s)))

\* RecordUrl::as_searchable_string on a parsed URL
as_searchable_string(parsed) ==
    IF parsed.has_host
    THEN [tag |-> "Ok",
          v |-> Concat(<<Join(Reverse(Split(parsed.host, ".")), <<",">>), <<")">>, parsed.path>>)]
    ELSE [tag |-> "Err", v |-> <<"V","a","l","u","e","N","o","t","F","o","u","n","d">>]

\* RecordUrl::new on the WARC-Target-URI, then as_searchable_string
RecordUrlNew(parsed) ==
    IF ~parsed.ok THEN [tag |-> "Err", v |-> <<"R","e","c","o","r","d","U","r","l","E","r","r","o","r">>]
    ELSE as_searchable_string(parsed)

Uncalled == [tag |-> "NotCalled", v |-> <<>>]

\* Display of an integer zero-padded to a width ({:0width})
Padded(n, width) ==
    LET digits == Decimal(n)
    IN  [i \in 1..(width - Len(digits)) |-> "0"] \o digits

AllDigits(s, from, to) == \A i \in from..to : IsDigit(s[i])

\* DateTime::parse_from_rfc3339 on YYYY-MM-DDThh:mm:ss followed by Z or
\* +hh:mm or -hh:mm (the forms the inputs of this model use; any other
\* text here is one chrono rejects)
ParseFromRfc3339(s) ==
    LET shaped ==
            /\ Len(s) \in {20, 25}
            /\ AllDigits(s, 1, 4) /\ s[5] = "-" /\ AllDigits(s, 6, 7) /\ s[8] = "-"
            /\ AllDigits(s, 9, 10) /\ s[11] = "T" /\ AllDigits(s, 12, 13) /\ s[14] = ":"
            /\ AllDigits(s, 15, 16) /\ s[17] = ":" /\ AllDigits(s, 18, 19)
            /\ IF Len(s) = 20 THEN s[20] = "Z"
               ELSE /\ s[20] \in {"+", "-"} /\ AllDigits(s, 21, 22)
                    /\ s[23] = ":" /\ AllDigits(s, 24, 25)
        num(from, to) == DigitsValue(SubSeq(s, from, to))
        dt == [year |-> num(1, 4), month |-> num(6, 7), day |-> num(9, 10),
               hour |-> num(12, 13), minute |-> num(15, 16), second |-> num(18, 19),
               offset |-> IF Len(s) = 20 THEN 0
                          ELSE (IF s[20] = "-" THEN -1 ELSE 1) * (num(21, 22) * 60 + num(24, 25))]
        ranged ==
            /\ dt.month \in 1..12 /\ dt.day \in 1..31 /\ dt.hour \in 0..23
            /\ dt.minute \in 0..59 /\ dt.second \in 0..59
            /\ Len(s) = 25 => (num(21, 22) \in 0..23 /\ num(24, 25) \in 0..59)
    IN  IF shaped /\ ranged THEN [ok |-> TRUE, v |-> dt]
        ELSE [ok |-> FALSE, v |-> <<>>]

\* Display of DateTime<FixedOffset>: the local date and time, then the offset
DateTimeDisplay(dt) ==
    LET abs == IF dt.offset < 0 THEN 0 - dt.offset ELSE dt.offset
    IN  Concat(<<Padded(dt.year, 4), <<"-">>, Padded(dt.month, 2), <<"-">>, Padded(dt.day, 2),
                 <<" ">>, Padded(dt.hour, 2), <<":">>, Padded(dt.minute, 2), <<":">>, Padded(dt.second, 2),
                 <<" ">>, IF dt.offset < 0 THEN <<"-">> ELSE <<"+">>,
                 Padded(abs \div 60, 2), <<":">>, Padded(abs % 60, 2)>>)

\* The value to_cdxj_string writes as "length"
CdxjLength(record) == record.content_length

\* The line to_cdxj_string formats for one record, "\n" included (the value
\* of timestamp.format("%Y%m%d%H%M%S") is computed and dropped; the line
\* shows the DateTime itself)
FormattedRecord(record, surt, timestamp) ==
    IF surt.tag # "Some" \/ ~timestamp.ok THEN [panic |-> TRUE, s |-> <<>>]
    ELSE [panic |-> FALSE,
          s |-> Concat(<<surt.v, <<" ">>, DateTimeDisplay(timestamp.v), <<" ">>,
                         <<"{","\"","u","r","l","\"",":","\"">>, record.url,
                         <<"\"",",","\"","d","i","g","e","s","t","\"",":","\"">>, record.digest,
                         <<"\"",",","\"","m","i","m","e","\"",":","\"">>, record.mime_type,
                         <<"\"",",","\"","o","f","f","s","e","t","\"",":">>, Decimal(record.offset),
                         <<",","\"","l","e","n","g","t","h","\"",":">>, Decimal(CdxjLength(record)),
                         <<",","\"","s","t","a","t","u","s","\"",":">>, Decimal(record.http_status_code),
                         <<",","\"","f","i","l","e","n","a","m","e","\"",":","\"">>, record.file_name,
                         <<"\"","}","\n">>>>)]

CdxjRecord(record) ==
    FormattedRecord(record, create_surt(record.url), ParseFromRfc3339(record.timestamp))

\* cdxj_index once the loop is over, or the panic of one of its turns
CdxjIndex(formatted) ==
    IF \E i \in 1..Len(formatted) : formatted[i].panic
    THEN [tag |-> "Panic", s |-> <<>>]
    ELSE [tag |-> "Returned",
          s |-> TrimEnd(Concat([i \in 1..Len(formatted) |-> formatted[i].s]))]

to_cdxj_string(records) == CdxjIndex([i \in 1..Len(records) |-> CdxjRecord(records[i])])

PagesHeader == <<"{","\"","f","o","r","m","a","t","\"",":","\"","j","s","o","n","-","p","a","g","e","s","-","1",".","0","\"",",","\"","i","d","\"",":","\"","p","a","g","e","s","\"",",","\"","t","i","t","l","e","\"",":","\"","A","l","l"," ","P","a","g","e","s","\"","}","\n">>

\* The same line when positions are counted from one
PagesRecord_OneBased(record_number, record_struct) ==
    IF record_struct.is_page
    THEN Concat(<<<<"{","\"","i","d","\"",":","\"">>, Decimal(record_number + 1),
                  <<"\"",",","\"","u","r","l","\"",":","\"">>, record_struct.url,
                  <<"\"",",","\"","t","s","\"",":","\"">>, record_struct.timestamp, <<"\"","}","\n">>>>)
    ELSE <<>>

\* The line to_pages_json_string formats for the record at position
\* record_number (zero-based), nothing when the record is no page
PagesRecord(record_number, record_struct) ==
    IF record_struct.is_page
    THEN Concat(<<<<"{","\"","i","d","\"",":","\"">>, Decimal(record_number),
                  <<"\"",",","\"","u","r","l","\"",":","\"">>, record_struct.url,
                  <<"\"",",","\"","t","s","\"",":","\"">>, record_struct.timestamp, <<"\"","}","\n">>>>)
    ELSE <<>>

\* The pages output when the final "\n" is not trimmed
to_pages_json_string_Untrimmed(records) ==
    [tag |-> "Returned",
     s |-> PagesHeader
           \o Concat([i \in 1..Len(records) |-> PagesRecord(i - 1, records[i])])]

to_pages_json_string(records) ==
    [tag |-> "Returned",
     s |-> TrimEnd(PagesHeader
                   \o Concat([i \in 1..Len(records) |-> PagesRecord(i - 1, records[i])]))]

NotCalled == [tag |-> "NotCalled", s |-> <<>>]

\* DataPackage::new has not been called
NotPackaged == [tag |-> "NotCalled", resources |-> <<>>]

\* PageRecord::new has been given no record, and has not been called
NoRecord == [given |-> FALSE]
NotBuilt == [tag |-> "NotCalled"]

(***************************************************************************)
(* The run: WarcReader::new, the loop of indexer, then the two writers on  *)
(* the list indexer returned.                                              *)
(***************************************************************************)
\* WarcReader::new (File::open(..).unwrap() panics when the file is missing)
WarcReaderNew ==
    /\ pc = "open"
    /\ IF file.exists
       THEN /\ pc' = "scan"
            /\ file_offset' = 0
            /\ file_size' = FileLen(file)
            /\ file_name' = file.name
            /\ is_gzip' = (Extension(file.name) = <<"g","z">>)
       ELSE /\ pc' = "panic"
            /\ UNCHANGED <<file_offset, file_size, file_name, is_gzip>>
    /\ UNCHANGED <<file, scanned, index, cdxj, pages, encoders, data_package, cli, page>>

\* The body of the loop when a dropped record leaves the reader where it was
LoopBody_DropRewinds(item) ==
    CASE item.tag = "Some" ->
            /\ file_offset' = IF Retained(item.rec) THEN item.file_offset ELSE file_offset
            /\ scanned' = Append(scanned, item.rec)
            /\ index' = IF Retained(item.rec) THEN Append(index, item.rec) ELSE index
            /\ pc' = "scan"
      [] item.tag = "None" ->
            /\ file_offset' = item.file_offset
            /\ pc' = "indexed"
            /\ UNCHANGED <<scanned, index>>
      [] OTHER ->
            /\ pc' = "panic"
            /\ UNCHANGED <<file_offset, scanned, index>>

\* The body of indexer's for loop on what WarcReader::next gave: Some(record)
\* is filtered and pushed, None ends the loop and indexer returns the list
LoopBody(item) ==
    CASE item.tag = "Some" ->
            /\ file_offset' = item.file_offset
            /\ scanned' = Append(scanned, item.rec)
            /\ index' = IF Retained(item.rec) THEN Append(index, item.rec) ELSE index
            /\ pc' = "scan"
      [] item.tag = "None" ->
            /\ file_offset' = item.file_offset
            /\ pc' = "indexed"
            /\ UNCHANGED <<scanned, index>>
      [] OTHER ->
            /\ pc' = "panic"
            /\ UNCHANGED <<file_offset, scanned, index>>

\* One turn of indexer's for loop
IndexerLoop ==
    /\ pc = "scan"
    /\ LoopBody(WarcReaderNext(file, file_name, is_gzip, file_offset, file_size))
    /\ UNCHANGED <<file, file_size, file_name, is_gzip, cdxj, pages, encoders, data_package,
                   cli, page>>

\* to_cdxj_string on the returned list
ToCdxjString ==
    /\ pc = "indexed"
    /\ cdxj.tag = "NotCalled"
    /\ cdxj' = to_cdxj_string(index)
    /\ pc' = IF cdxj'.tag = "Panic" THEN "panic" ELSE pc
    /\ UNCHANGED <<file, file_offset, file_size, file_name, is_gzip, scanned, index, pages,
                   encoders, data_package, cli, page>>

\* to_pages_json_string on the returned list
ToPagesJsonString ==
    /\ pc = "indexed"
    /\ pages.tag = "NotCalled"
    /\ pages' = to_pages_json_string(index)
    /\ UNCHANGED <<file, pc, file_offset, file_size, file_name, is_gzip, scanned, index, cdxj,
                   encoders, data_package, cli, page>>

Next == WarcReaderNew \/ IndexerLoop \/ ToCdxjString \/ ToPagesJsonString

(***************************************************************************)
(* The inputs.                                                             *)
(***************************************************************************)
\* A well-formed record: Content-Length declares the length of the payload,
\* there are no further header lines, nothing is cut off and nothing
\* follows the record in its gzip member
Layout(wtype, ctype, uri, date, payload) ==
    [version |-> <<"W","A","R","C","/","1",".","1">>, wtype |-> wtype, ctype |-> ctype, uri |-> uri,
     date |-> date, digest |-> <<"s","h","a","1",":","A","B">>, payload |-> payload, csize |-> 0,
     length |-> Decimal(Len(payload)), extra |-> <<>>, cut |-> 0, more |-> <<>>]

\* n bytes of repetitive body
Filler(n) == [i \in 1..n |-> "a"]

\* The compressed size of a gzip member holding these bytes: DEFLATE halves
\* text ("deflated"), and a member of stored blocks adds its framing
MemberSize(bytes, how) ==
    IF how = "deflated" THEN 20 + (Len(bytes) \div 2) ELSE Len(bytes) + 23

Compressed(recs, how) ==
    [i \in 1..Len(recs) |-> [recs[i] EXCEPT !.csize = MemberSize(MemberBytes(recs[i]), how)]]

SeqsUpTo(S, n) == UNION {[1..k -> S] : k \in 0..n}

PlainFiles(names, layouts) ==
    {[exists |-> TRUE, name |-> name, recs |-> recs] :
        name \in names, recs \in SeqsUpTo(layouts, MaxRecords)}

GzipFiles(names, layouts) ==
    {[exists |-> TRUE, name |-> name, recs |-> Compressed(recs, how)] :
        name \in names, recs \in SeqsUpTo(layouts, MaxRecords), how \in {"deflated", "stored"}}

HttpResponses ==
    {HttpMessage(<<"2","0","0">>, <<"t","e","x","t","/","h","t","m","l">>, <<"<","p",">">> \o Filler(BodyLen) \o <<"<","/","p",">">>),
     HttpMessage(<<"2","9","9">>, <<"t","e","x","t","/","h","t","m","l">>, <<"<","p",">","a","l","m","o","s","t","<","/","p",">">>),
     HttpMessage(<<"2","0","0">>, <<"t","e","x","t","/","p","l","a","i","n">>, <<"p","l","a","i","n"," ","t","e","x","t">>),
     HttpMessage(<<"4","0","4">>, <<"t","e","x","t","/","h","t","m","l">>, <<"<","p",">","n","o","t"," ","f","o","u","n","d","<","/","p",">">>),
     HttpMessage(<<"2","0","0">>, <<>>, <<"u","n","t","y","p","e","d">>)}

Layouts ==
    {Layout(<<"r","e","s","p","o","n","s","e">>, <<"a","p","p","l","i","c","a","t","i","o","n","/","h","t","t","p",";"," ","m","s","g","t","y","p","e","=","r","e","s","p","o","n","s","e">>, <<"h","t","t","p",":","/","/","a",".","b","/","c">>,
            <<"2","0","2","5","-","0","8","-","0","6","T","1","4",":","3","7",":","2","8","+","0","1",":","0","0">>, m) : m \in HttpResponses}
    \cup {Layout(t, <<"a","p","p","l","i","c","a","t","i","o","n","/","h","t","t","p",";"," ","m","s","g","t","y","p","e","=","r","e","s","p","o","n","s","e">>, <<"h","t","t","p",":","/","/","a",".","b","/","d">>,
                 <<"2","0","2","5","-","0","8","-","0","6","T","1","3",":","3","7",":","2","8","Z">>, HttpMessage(<<"2","0","0">>, <<"t","e","x","t","/","h","t","m","l">>, <<"<","p",">","x","<","/","p",">">>)) :
             t \in {<<"r","e","v","i","s","i","t">>, <<"r","e","s","o","u","r","c","e">>, <<"w","a","r","c","i","n","f","o">>}}
    \cup {Layout(<<"r","e","s","p","o","n","s","e">>, <<"t","e","x","t","/","p","l","a","i","n">>, <<"h","t","t","p",":","/","/","a",".","b","/","e">>,
                 <<"2","0","2","5","-","0","8","-","0","6","T","1","3",":","3","7",":","2","8","Z">>, <<"n","o"," ","h","t","t","p"," ","h","e","r","e">>)}
    \cup {Layout(<<"r","e","s","p","o","n","s","e">>, <<"a","p","p","l","i","c","a","t","i","o","n","/","h","t","t","p",";"," ","m","s","g","t","y","p","e","=","r","e","s","p","o","n","s","e">>, <<"h","t","t","p",":","/","/","a",".","b","/","f">>,
                 <<"2","0","2","5","-","0","8","-","0","6","T","1","3",":","3","7",":","2","8","Z">>, <<"H","T","T","P","/","1",".","1"," ","2","0","0"," ","O","K","\r","\n","C","o","n","t","e","n","t","-","T","y","p","e",":"," ","t","e","x","t","/","h","t","m","l">>)}

MissingFile == [exists |-> FALSE, name |-> <<"a",".","w","a","r","c">>, recs |-> <<>>]

\* Nothing has run yet
Fresh ==
    /\ pc = "open"
    /\ file_offset = 0
    /\ file_size = 0
    /\ file_name = <<>>
    /\ is_gzip = FALSE
    /\ scanned = <<>>
    /\ index = <<>>
    /\ cdxj = NotCalled
    /\ pages = NotCalled
    /\ surt_indexer = Uncalled
    /\ surt_rs = Uncalled
    /\ searchable = Uncalled
    /\ data_package = NotPackaged
    /\ exit_status = -1
    /\ written = FALSE
    /\ page_record = NotBuilt

Files ==
    PlainFiles({<<"a",".","w","a","r","c">>}, Layouts) \cup GzipFiles({<<"a",".","w","a","r","c",".","g","z">>}, Layouts) \cup {MissingFile}

Init ==
    /\ file \in Files
    /\ input_url = <<>> /\ argument = TRUE /\ page_input = NoRecord /\ Fresh

Spec == Init /\ [][Next]_vars

\* The record of the test valid_page_record, holding an HTTP message
ReviewPage ==
    Layout(<<"r","e","s","o","u","r","c","e">>, <<"a","p","p","l","i","c","a","t","i","o","n","/","h","t","t","p",";"," ","m","s","g","t","y","p","e","=","r","e","s","p","o","n","s","e">>,
           <<"h","t","t","p","s",":","/","/","t","h","e","h","t","m","l",".","r","e","v","i","e","w","/","0","4","/","a","s","c","i","i","-","b","e","d","r","o","o","m","-","a","r","c","h","i","v","e","/">>, <<"2","0","2","5","-","0","8","-","0","6","T","1","4",":","3","7",":","2","8","+","0","1",":","0","0">>,
           HttpMessage(<<"2","0","0">>, <<"t","e","x","t","/","h","t","m","l">>, <<"<","p",">","r","<","/","p",">">>))

\* Inputs whose text matters to the writers: quotes in a URL and in a media
\* type, URLs without a path, a urn, a record without WARC-Date, resource
\* and metadata records, and a file name with a line feed in it
TextLayouts ==
    {Layout(<<"r","e","s","p","o","n","s","e">>, <<"a","p","p","l","i","c","a","t","i","o","n","/","h","t","t","p",";"," ","m","s","g","t","y","p","e","=","r","e","s","p","o","n","s","e">>, <<"h","t","t","p",":","/","/","a",".","b","/","c">>,
            <<"2","0","2","5","-","0","8","-","0","6","T","1","4",":","3","7",":","2","8","+","0","1",":","0","0">>, HttpMessage(<<"2","0","0">>, <<"t","e","x","t","/","h","t","m","l">>, <<"<","p",">","c","<","/","p",">">>)),
     Layout(<<"r","e","s","p","o","n","s","e">>, <<"a","p","p","l","i","c","a","t","i","o","n","/","h","t","t","p",";"," ","m","s","g","t","y","p","e","=","r","e","s","p","o","n","s","e">>, <<"h","t","t","p","s",":","/","/","a",".","b","/","?","q","=","\"","x","\"">>,
            <<"2","0","2","5","-","0","8","-","0","6","T","1","3",":","3","7",":","2","8","Z">>,
            HttpMessage(<<"2","0","0">>, <<"t","e","x","t","/","h","t","m","l",";"," ","c","h","a","r","s","e","t","=","\"","u","t","f","-","8","\"">>, <<"<","p",">","q","<","/","p",">">>)),
     Layout(<<"r","e","s","p","o","n","s","e">>, <<"a","p","p","l","i","c","a","t","i","o","n","/","h","t","t","p",";"," ","m","s","g","t","y","p","e","=","r","e","s","p","o","n","s","e">>, <<"h","t","t","p",":","/","/","a",".","b">>,
            <<"2","0","2","5","-","0","8","-","0","6","T","1","3",":","3","7",":","2","8","Z">>, HttpMessage(<<"2","0","0">>, <<"t","e","x","t","/","h","t","m","l">>, <<"<","p",">","b","<","/","p",">">>)),
     Layout(<<"r","e","s","p","o","n","s","e">>, <<"a","p","p","l","i","c","a","t","i","o","n","/","h","t","t","p",";"," ","m","s","g","t","y","p","e","=","r","e","s","p","o","n","s","e">>, <<"u","r","n",":","x",":","y">>,
            <<"2","0","2","5","-","0","8","-","0","6","T","1","3",":","3","7",":","2","8","Z">>, HttpMessage(<<"2","0","0">>, <<"t","e","x","t","/","h","t","m","l">>, <<"<","p",">","u","<","/","p",">">>)),
     Layout(<<"r","e","s","p","o","n","s","e">>, <<"a","p","p","l","i","c","a","t","i","o","n","/","h","t","t","p",";"," ","m","s","g","t","y","p","e","=","r","e","s","p","o","n","s","e">>, <<"h","t","t","p",":","/","/","a",".","b","/","n">>,
            <<>>, HttpMessage(<<"2","0","0">>, <<"t","e","x","t","/","h","t","m","l">>, <<"<","p",">","n","<","/","p",">">>)),
     Layout(<<"r","e","s","o","u","r","c","e">>, <<"t","e","x","t","/","h","t","m","l">>, <<"h","t","t","p",":","/","/","a",".","b","/","r">>,
            <<"2","0","2","5","-","0","8","-","0","6","T","1","3",":","3","7",":","2","8","Z">>, <<"<","p",">","r","<","/","p",">">>),
     Layout(<<"m","e","t","a","d","a","t","a">>, <<"a","p","p","l","i","c","a","t","i","o","n","/","h","t","t","p",";"," ","m","s","g","t","y","p","e","=","r","e","s","p","o","n","s","e">>, <<"h","t","t","p",":","/","/","a",".","b","/","m">>,
            <<"2","0","2","5","-","0","8","-","0","6","T","1","3",":","3","7",":","2","8","Z">>, HttpMessage(<<"2","0","0">>, <<"t","e","x","t","/","h","t","m","l">>, <<"<","p",">","m","<","/","p",">">>)),
     ReviewPage}

TextFiles ==
    PlainFiles({<<"a",".","w","a","r","c">>, <<"a","\n","b",".","w","a","r","c">>}, TextLayouts)
    \cup GzipFiles({<<"a",".","w","a","r","c",".","g","z">>}, TextLayouts)

InitText ==
    /\ file \in TextFiles
    /\ input_url = <<>> /\ argument = TRUE /\ page_input = NoRecord /\ Fresh

SpecText == InitText /\ [][Next]_vars

\* A record of which the file holds only the first n bytes
KeepFirst(d, n) ==
    [d EXCEPT !.cut = Len(WarcHeaderBlock(d)) + Len(d.payload) + 4 - n]

\* A response record holding an HTTP message
HttpResponse(payload) ==
    Layout(<<"r","e","s","p","o","n","s","e">>, <<"a","p","p","l","i","c","a","t","i","o","n","/","h","t","t","p",";"," ","m","s","g","t","y","p","e","=","r","e","s","p","o","n","s","e">>, <<"h","t","t","p",":","/","/","a",".","b","/","c">>,
           <<"2","0","2","5","-","0","8","-","0","6","T","1","3",":","3","7",":","2","8","Z">>, payload)

GoodPage == HttpResponse(HttpMessage(<<"2","0","0">>, <<"t","e","x","t","/","h","t","m","l">>, <<"<","p",">","c","<","/","p",">">>))

\* Records with one defect each: another WARC version, a file that ends
\* within the WARC or the HTTP header block, a status that is no code from
\* 100 to 599, a header line without ":", a Content-Length that is no number
CorruptLayouts ==
    {[GoodPage EXCEPT !.version = <<"W","A","R","C","/","1",".","0">>],
     KeepFirst(GoodPage, 25),
     KeepFirst(GoodPage, Len(WarcHeaderBlock(GoodPage)) + 17)}

BadStatusLayouts ==
    {HttpResponse(HttpMessage(status, <<"t","e","x","t","/","h","t","m","l">>, <<"<","p",">","c","<","/","p",">">>)) :
        status \in {<<"0","0","0">>, <<"0","9","9">>, <<"6","0","0">>, <<"9","9","9">>, <<"a","b","c">>}}

BadHeaderLayouts ==
    {HttpResponse(<<"H","T","T","P","/","1",".","1"," ","2","0","0"," ","O","K","\r","\n","C","o","n","t","e","n","t","-","T","y","p","e"," ","t","e","x","t","/","h","t","m","l","\r","\n","\r","\n","<","p",">","c","<","/","p",">">>),
     [GoodPage EXCEPT !.extra = <<"X","-","B","r","o","k","e","n","\r","\n">>],
     [GoodPage EXCEPT !.length = <<"a","b","c">>],
     [GoodPage EXCEPT !.length = <<"-","1">>]}

BadLayouts == {GoodPage} \cup CorruptLayouts \cup BadStatusLayouts \cup BadHeaderLayouts

\* A gzip member that holds two records
TwoRecordMember ==
    [GoodPage EXCEPT
        !.more = RecordBytes(HttpResponse(HttpMessage(<<"4","0","4">>, <<"t","e","x","t","/","h","t","m","l">>, <<"<","p",">","d","<","/","p",">">>)))]

BadFiles ==
    PlainFiles({<<"a",".","w","a","r","c">>}, BadLayouts)
    \cup GzipFiles({<<"a",".","w","a","r","c",".","g","z">>}, BadLayouts \cup {TwoRecordMember})

InitBad ==
    /\ file \in BadFiles
    /\ input_url = <<>> /\ argument = TRUE /\ page_input = NoRecord /\ Fresh

SpecBad == InitBad /\ [][Next]_vars

(***************************************************************************)
(* The SURT encoders, each applied to a URL on its own.                    *)
(***************************************************************************)
\* create_surt of indexer.rs
CreateSurt ==
    /\ surt_indexer.tag = "NotCalled"
    /\ surt_indexer' = create_surt(input_url)
    /\ UNCHANGED <<file, pc, file_offset, file_size, file_name, is_gzip, scanned, index,
                   cdxj, pages, input_url, surt_rs, searchable, data_package, cli, page>>

\* create_surt of indexer/surt.rs
SurtRsCreateSurt ==
    /\ surt_rs.tag = "NotCalled"
    /\ surt_rs' = surt_rs_create_surt(input_url)
    /\ UNCHANGED <<file, pc, file_offset, file_size, file_name, is_gzip, scanned, index,
                   cdxj, pages, input_url, surt_indexer, searchable, data_package, cli, page>>

\* RecordUrl::new(..)?.as_searchable_string()
AsSearchableString ==
    /\ searchable.tag = "NotCalled"
    /\ searchable' = RecordUrlNew(UrlParse(input_url))
    /\ UNCHANGED <<file, pc, file_offset, file_size, file_name, is_gzip, scanned, index,
                   cdxj, pages, input_url, surt_indexer, surt_rs, data_package, cli, page>>

NextUrl == CreateSurt \/ SurtRsCreateSurt \/ AsSearchableString

\* A URL from its parts: scheme with "://", the labels of the host, and what
\* follows the host
UrlText(u) == Concat(<<u.scheme, Join(u.labels, <<".">>), u.rest>>)

HttpUrlParts ==
    [scheme : {<<"h","t","t","p",":","/","/">>, <<"h","t","t","p","s",":","/","/">>},
     labels : {<<<<"a","r","c","h","i","v","e">>, <<"o","r","g">>>>, <<<<"w","w","w">>, <<"a","r","c","h","i","v","e">>, <<"o","r","g">>>>,
               <<<<"t","h","e","h","t","m","l">>, <<"r","e","v","i","e","w">>>>, <<<<"A","r","c","h","i","v","e">>, <<"O","R","G">>>>, <<<<"l","o","c","a","l","h","o","s","t">>>>},
     rest   : {<<>>, <<"/">>, <<"/","g","o","o","/">>, <<"/","g","o","o","/","?">>, <<"/","g","o","o">>, <<"/","0","4","/","a","s","c","i","i","-","b","e","d","r","o","o","m","-","a","r","c","h","i","v","e","/">>,
               <<"/","G","o","o","?","Q","=","A">>}]

\* Text that is no http or https URL
OtherUrls ==
    {<<"w","w","w",".","a","r","c","h","i","v","e",".","o","r","g">>, <<"a","r","c","h","i","v","e",".","o","r","g">>, <<"u","r","n",":","p","a","g","e","i","n","f","o",":","a","r","c","h","i","v","e",".","o","r","g">>, <<"u","r","n",":","x",":","y">>,
     <<"f","t","p",":","/","/","a","r","c","h","i","v","e",".","o","r","g","/","g","o","o">>}

Urls == {UrlText(u) : u \in HttpUrlParts} \cup OtherUrls

InitUrl ==
    /\ file = MissingFile
    /\ input_url \in Urls /\ argument = TRUE /\ page_input = NoRecord /\ Fresh

SpecUrl == InitUrl /\ [][NextUrl]_vars

(***************************************************************************)
(* The data package and the command line.                                  *)
(***************************************************************************)
\* What fs::read gives for the file; the bytes of compressed members are not
\* told apart
FileBytes(f) == IF StoredAsGzip(f) THEN [i \in 1..FileLen(f) |-> "z"] ELSE PlainBytes(f)

\* DataPackageResource::new with bytes one more than the blob is long
DataPackageResourceNew_CountsTerminator(resource_type, resource_name, file_bytes) ==
    [resource_type |-> resource_type,
     path |-> (CASE resource_type = "CDXJ" -> <<"i","n","d","e","x","e","s","/">>
                 [] resource_type = "Pages" -> <<"p","a","g","e","s","/">>
                 [] OTHER -> <<"a","r","c","h","i","v","e","/">>) \o resource_name,
     bytes |-> Len(file_bytes) + 1,
     content |-> file_bytes]

\* DataPackageResource::new (the hash is Sha256's and is left out)
DataPackageResourceNew(resource_type, resource_name, file_bytes) ==
    [resource_type |-> resource_type,
     path |-> (CASE resource_type = "CDXJ" -> <<"i","n","d","e","x","e","s","/">>
                 [] resource_type = "Pages" -> <<"p","a","g","e","s","/">>
                 [] OTHER -> <<"a","r","c","h","i","v","e","/">>) \o resource_name,
     bytes |-> Len(file_bytes),
     content |-> file_bytes]

\* DataPackage::new once the file is read: the three resources are added in
\* turn, and a panic of to_cdxj_string is a panic of DataPackage::new
AddResources(warc_file_name, warc_file_bytes, cdxj_string, pages_string) ==
    IF cdxj_string.tag = "Panic" THEN [tag |-> "Panic", resources |-> <<>>]
    ELSE [tag |-> "Ok",
          resources |-> <<DataPackageResourceNew("Warc", warc_file_name, warc_file_bytes),
                          DataPackageResourceNew("CDXJ", <<"i","n","d","e","x",".","c","d","x","j">>, cdxj_string.s),
                          DataPackageResourceNew("Pages", <<"p","a","g","e","s",".","j","s","o","n","l">>, pages_string.s)>>]

\* DataPackage::new
DataPackageNew(f, records) ==
    IF ~f.exists THEN [tag |-> "FileReadError", resources |-> <<>>]
    ELSE AddResources(f.name, FileBytes(f), to_cdxj_string(records),
                      to_pages_json_string(records))

\* DataPackage::new on the list indexer returned
CreateDataPackage ==
    /\ pc = "indexed"
    /\ data_package.tag = "NotCalled"
    /\ data_package' = DataPackageNew(file, index)
    /\ pc' = IF data_package'.tag = "Panic" THEN "panic" ELSE pc
    /\ UNCHANGED <<file, file_offset, file_size, file_name, is_gzip, scanned, index, cdxj,
                   pages, encoders, cli, page>>

\* main without its argument: "argument not suppplied" goes to stderr and
\* main returns Ok(())
MainNoArgument ==
    /\ ~argument
    /\ exit_status = -1
    /\ exit_status' = 0
    /\ UNCHANGED <<file, pc, file_offset, file_size, file_name, is_gzip, scanned, index, cdxj,
                   pages, encoders, data_package, argument, written, page>>

\* WACZ::from_file(warc_file_path): the index of the file, then its data package
FromFile ==
    /\ argument
    /\ exit_status = -1
    /\ (WarcReaderNew \/ IndexerLoop \/ CreateDataPackage)

\* A panic anywhere below main ends the process with status 101
MainPanic ==
    /\ pc = "panic"
    /\ exit_status = -1
    /\ exit_status' = 101
    /\ UNCHANGED <<file, pc, file_offset, file_size, file_name, is_gzip, scanned, index, cdxj,
                   pages, encoders, data_package, argument, written, page>>

\* The rest of main once from_file returned: its error leaves main through
\* "?", and so does an error of as_zip_archive or of fs::write; otherwise
\* tests/output.wacz is written and main returns Ok(())
MainWrite ==
    /\ argument
    /\ exit_status = -1
    /\ data_package.tag \notin {"NotCalled", "Panic"}
    /\ \E ok \in BOOLEAN :
          /\ written' = (ok /\ data_package.tag = "Ok")
          /\ exit_status' = IF written' THEN 0 ELSE 1
    /\ UNCHANGED <<file, pc, file_offset, file_size, file_name, is_gzip, scanned, index, cdxj,
                   pages, encoders, data_package, argument, page>>

NextCli == MainNoArgument \/ FromFile \/ MainPanic \/ MainWrite

InitCli ==
    /\ file \in TextFiles \cup {MissingFile}
    /\ input_url = <<>> /\ argument \in BOOLEAN /\ page_input = NoRecord /\ Fresh

SpecCli == InitCli /\ [][NextCli]_vars

(***************************************************************************)
(* PageRecord::new.  RecordContentType::new, RecordStatus::new and         *)
(* RecordTimestamp::new read the record; what each of them returned is     *)
(* part of the record given here.                                          *)
(***************************************************************************)
MaxCount == 2

PageTypes == {"Response", "Revisit", "Resource"}
PageMimes == {<<"t","e","x","t","/","h","t","m","l">>, <<"a","p","p","l","i","c","a","t","i","o","n","/","x","h","t","m","l","+","x","m","l">>, <<"t","e","x","t","/","p","l","a","i","n">>}

\* RecordUrl::new: the WARC-Target-URI header parsed by Url::parse
PageUrl(record) ==
    IF ~record.has_uri THEN [tag |-> "Err", error |-> "ValueNotFound"]
    ELSE IF ~UrlParse(record.uri).ok THEN [tag |-> "Err", error |-> "RecordUrlError"]
    ELSE [tag |-> "Ok", v |-> UrlParse(record.uri)]

\* The Ok branch of PageRecord::new: the timestamp, then the url, each with "?"
PageRecordOk(record_count, timestamp, record_url) ==
    IF ~timestamp.ok THEN [tag |-> "Err", error |-> timestamp.error]
    ELSE IF record_url.tag = "Err" THEN record_url
    ELSE [tag |-> "Ok", id |-> record_count, timestamp |-> timestamp.v, url |-> record_url.v]

\* PageRecord::new accepting every status from 200 to 299
PageRecordNew_AnySuccess(record, record_count) ==
    IF ~record.mime.ok THEN [tag |-> "Err", error |-> record.mime.error]
    ELSE IF ~record.status.ok THEN [tag |-> "Err", error |-> record.status.error]
    ELSE IF /\ record.warc_type \in PageTypes
            /\ record.mime.v \in PageMimes
            /\ record.status.v >= 200 /\ record.status.v < 300
    THEN PageRecordOk(record_count, record.timestamp, PageUrl(record))
    ELSE [tag |-> "Err", error |-> "UnindexableRecordType", warc_type |-> record.warc_type]

\* PageRecord::new
PageRecordNew(record, record_count) ==
    IF ~record.mime.ok THEN [tag |-> "Err", error |-> record.mime.error]
    ELSE IF ~record.status.ok THEN [tag |-> "Err", error |-> record.status.error]
    ELSE IF /\ record.warc_type \in PageTypes
            /\ record.mime.v \in PageMimes
            /\ record.status.v = 200
    THEN PageRecordOk(record_count, record.timestamp, PageUrl(record))
    ELSE [tag |-> "Err", error |-> "UnindexableRecordType", warc_type |-> record.warc_type]

\* A call of PageRecord::new
NewPageRecord ==
    /\ page_input.given
    /\ page_record.tag = "NotCalled"
    /\ page_record' = PageRecordNew(page_input.record, page_input.record_count)
    /\ UNCHANGED <<file, pc, file_offset, file_size, file_name, is_gzip, scanned, index, cdxj,
                   pages, encoders, data_package, cli, page_input>>

\* The records given to PageRecord::new: every WARC type, media types and
\* statuses inside and outside the accepted ones, fields that cannot be read
PageInputs ==
    [given : {TRUE},
     record_count : 0..MaxCount,
     record :
        [warc_type : PageTypes \cup {"Metadata", "Request", "WarcInfo"},
         mime : {[ok |-> TRUE, v |-> m] :
                    m \in PageMimes \cup {<<"i","m","a","g","e","/","p","n","g">>, <<"t","e","x","t","/","h","t","m","l",";"," ","c","h","a","r","s","e","t","=","u","t","f","-","8">>}}
                \cup {[ok |-> FALSE, error |-> "ValueNotFound"]},
         status : {[ok |-> TRUE, v |-> n] : n \in {200, 204, 301, 404}}
                  \cup {[ok |-> FALSE, error |-> "ValueNotFound"]},
         timestamp : {[ok |-> TRUE, v |-> <<"2","0","2","5","-","0","8","-","0","6","T","1","4",":","3","7",":","2","8","+","0","1",":","0","0">>],
                      [ok |-> FALSE, error |-> "RecordTimestampError"]},
         has_uri : BOOLEAN,
         uri : {<<"h","t","t","p","s",":","/","/","t","h","e","h","t","m","l",".","r","e","v","i","e","w","/","0","4","/","a","s","c","i","i","-","b","e","d","r","o","o","m","-","a","r","c","h","i","v","e","/">>, <<"n","o"," ","u","r","l">>}]]

InitPage ==
    /\ file = MissingFile
    /\ input_url = <<>> /\ argument = TRUE /\ page_input \in PageInputs /\ Fresh

SpecPage == InitPage /\ [][NewPageRecord]_vars

(***************************************************************************)
(* The run on any file, well-formed or not, as a program that keeps        *)
(* running: a call that can be made is made.                               *)
(***************************************************************************)
AnyLayouts == {GoodPage, TwoRecordMember} \cup CorruptLayouts \cup BadHeaderLayouts

AnyFiles ==
    PlainFiles({<<"a",".","w","a","r","c">>}, AnyLayouts) \cup GzipFiles({<<"a",".","w","a","r","c",".","g","z">>}, AnyLayouts)
    \cup {MissingFile}

InitAny ==
    /\ file \in AnyFiles
    /\ input_url = <<>> /\ argument = TRUE /\ page_input = NoRecord /\ Fresh

\* WarcReaderNew and IndexerLoop are the steps of the run while pc is "open"
\* or "scan"; one of them is possible in each of these states and it changes
\* the state
Running == pc \in {"open", "scan"}

\* Weak fairness of the steps of the run, WF_vars(Running /\ Next), with
\* ENABLED <<Running /\ Next>>_vars written as Running
RunContinues == []<>(~Running) \/ []<><<Running /\ Next>>_vars

SpecAny == InitAny /\ [][Next]_vars /\ RunContinues

(***************************************************************************)
(* The claims.                                                             *)
(***************************************************************************)
\* indexer has returned its list
IndexerReturned == pc = "indexed"

\* Every gzip member of the file holds one WARC/1.1 record
ValidWarc(f) == \A i \in 1..Len(f.recs) : f.recs[i].version = <<"W","A","R","C","/","1",".","1">>

PassesFilter(r) ==
    /\ r.record_type \in {"Response", "Revisit", "Resource", "Metadata"}
    /\ Len(r.mime_type) > 0
    /\ r.http_status_code # 0

\* C1: the list indexer builds and returns is exactly the scanned records, in
\* scan order, that have a record_type, a non-empty mime_type and a non-zero
\* http_status_code.
C1_ExactlyTheFiltered == index = SelectSeq(scanned, PassesFilter)

C1_Witness ==
    /\ IndexerReturned
    /\ Len(index) > 0
    /\ Len(index) < Len(scanned)
    /\ \E k \in 1..Len(scanned) : scanned[k].record_type # "None" /\ ~PassesFilter(scanned[k])

\* C2: for a valid WARC file, consecutive records of the returned list do not
\* overlap: the next offset is at least the offset plus the length written
\* to the CDXJ line.
C2_NoOverlap ==
    (IndexerReturned /\ ValidWarc(file)) =>
        \A i \in 1..(Len(index) - 1) :
            index[i + 1].offset >= index[i].offset + CdxjLength(index[i])

\* C3: offset plus the length written to the CDXJ line never exceeds the size
\* of the file.
C3_WithinFile ==
    IndexerReturned =>
        \A i \in 1..Len(index) : index[i].offset + CdxjLength(index[i]) <= file_size

\* C4: the length written to the CDXJ line is physical: the compressed size
\* of the record's gzip member, or header length + content length + 4 in a
\* plain file.
C4_LengthIsPhysical ==
    \A k \in 1..Len(scanned) :
        PassesFilter(scanned[k]) =>
            CdxjLength(scanned[k]) =
                IF is_gzip THEN file.recs[k].csize
                ELSE Len(WarcHeaderBlock(file.recs[k])) + Len(file.recs[k].payload) + 4

\* Where record k starts in the file, from the layout of the file
PhysicalStart(f, k) ==
    IF StoredAsGzip(f) THEN Sum([i \in 1..(k - 1) |-> f.recs[i].csize])
    ELSE Sum([i \in 1..(k - 1) |->
                Len(WarcHeaderBlock(f.recs[i])) + Len(f.recs[i].payload) + 4])

\* C5: the offset of the k-th scanned record is its physical start: the sum
\* of the compressed sizes of the members before it, or in a plain file the
\* sum of header length + Content-Length + 4 over the records before it.
\* The reader's cursor then stands at the physical start of the next record.
C5_OffsetIsPhysicalStart ==
    /\ \A k \in 1..Len(scanned) : scanned[k].offset = PhysicalStart(file, k)
    /\ pc \in {"scan", "indexed"} => file_offset = PhysicalStart(file, Len(scanned) + 1)

C5_Witness ==
    /\ IndexerReturned
    /\ ~is_gzip
    /\ Len(scanned) >= 2
    /\ scanned[1].content_length # scanned[2].content_length
    /\ scanned[2].offset > scanned[1].content_length

\* C6: is_page holds exactly for the three page media types with a status
\* from 200 to 299, both included.
C6_IsPageIff ==
    \A k \in 1..Len(scanned) :
        scanned[k].is_page <=>
            /\ scanned[k].mime_type \in {<<"t","e","x","t","/","h","t","m","l">>, <<"a","p","p","l","i","c","a","t","i","o","n","/","x","h","t","m","l","+","x","m","l">>, <<"t","e","x","t","/","p","l","a","i","n">>}
            /\ scanned[k].http_status_code >= 200
            /\ scanned[k].http_status_code <= 299

\* The lines of an output: the text between its "\n"
OutputLines(s) == IF s = <<>> THEN <<>> ELSE Split(s, "\n")

EndsWith(s, p) == Len(s) >= Len(p) /\ SubSeq(s, Len(s) - Len(p) + 1, Len(s)) = p

\* YYYYMMDDhhmmss of a WARC-Date in UTC (every date of this model stays on
\* its day when the offset is taken off)
Utc14(timestamp) ==
    LET dt == ParseFromRfc3339(timestamp).v
        minutes == (dt.hour * 60 + dt.minute) - dt.offset
    IN  Concat(<<Padded(dt.year, 4), Padded(dt.month, 2), Padded(dt.day, 2),
                 Padded(minutes \div 60, 2), Padded(minutes % 60, 2), Padded(dt.second, 2)>>)

\* C7: every CDXJ line is the SURT key, a space, the WARC-Date as 14 digits
\* YYYYMMDDhhmmss in UTC, a space, then the JSON object.
C7_Timestamp14 ==
    cdxj.tag = "Returned" =>
        \A i \in 1..Len(index) :
            /\ i <= Len(OutputLines(cdxj.s))
            /\ StartsWith(OutputLines(cdxj.s)[i],
                          Concat(<<create_surt(index[i].url).v, <<" ">>,
                                   Utc14(index[i].timestamp), <<" ","{">>>>))

\* A string as JSON writes it between its quotes
JsonEscaped(s) ==
    Concat([i \in 1..Len(s) |->
               CASE s[i] = "\"" -> <<"\\","\"">>
                 [] s[i] = "\\" -> <<"\\","\\">>
                 [] s[i] = "\n" -> <<"\\","n">>
                 [] s[i] = "\r" -> <<"\\","r">>
                 [] s[i] = "\t" -> <<"\\","t">>
                 [] OTHER -> <<s[i]>>])

\* The compact JSON object of a record: the seven keys in order, numbers
\* bare, strings quoted and escaped
JsonObject(r) ==
    Concat(<<<<"{","\"","u","r","l","\"",":","\"">>, JsonEscaped(r.url),
             <<"\"",",","\"","d","i","g","e","s","t","\"",":","\"">>, JsonEscaped(r.digest),
             <<"\"",",","\"","m","i","m","e","\"",":","\"">>, JsonEscaped(r.mime_type),
             <<"\"",",","\"","o","f","f","s","e","t","\"",":">>, Decimal(r.offset),
             <<",","\"","l","e","n","g","t","h","\"",":">>, Decimal(CdxjLength(r)),
             <<",","\"","s","t","a","t","u","s","\"",":">>, Decimal(r.http_status_code),
             <<",","\"","f","i","l","e","n","a","m","e","\"",":","\"">>, JsonEscaped(r.file_name), <<"\"","}">>>>)

\* C8: the third field of every CDXJ line is the well-formed compact JSON
\* object of its record, also when a string of the record holds a double
\* quote or a backslash.
C8_JsonWellFormed ==
    cdxj.tag = "Returned" =>
        \A i \in 1..Len(index) :
            /\ i <= Len(OutputLines(cdxj.s))
            /\ EndsWith(OutputLines(cdxj.s)[i], JsonObject(index[i]))

\* C9: the CDXJ output has exactly one line per record of the list, in list
\* order, separated by single "\n", with no "\n" after the last line; an
\* empty list gives the empty string.
C9_OneLinePerRecord ==
    cdxj.tag = "Returned" =>
        /\ Len(OutputLines(cdxj.s)) = Len(index)
        /\ \A i \in 1..Len(index) :
              OutputLines(cdxj.s)[i] \o <<"\n">> = CdxjRecord(index[i]).s
        /\ cdxj.s # <<>> => cdxj.s[Len(cdxj.s)] # "\n"

\* The positions of the page records of a list, in list order
PagePositions(records) ==
    SelectSeq([i \in 1..Len(records) |-> i], LAMBDA i : records[i].is_page)

\* C10: the pages output has exactly 1 + #{r : r.is_page} lines: the fixed
\* header line first (also for an empty list), then one line per is_page
\* record in list order, separated by single "\n", with no "\n" at the end.
C10_PagesLines ==
    pages.tag = "Returned" =>
        /\ Len(OutputLines(pages.s)) = 1 + Cardinality({i \in 1..Len(index) : index[i].is_page})
        /\ OutputLines(pages.s)[1]
              = <<"{","\"","f","o","r","m","a","t","\"",":","\"","j","s","o","n","-","p","a","g","e","s","-","1",".","0","\"",",","\"","i","d","\"",":","\"","p","a","g","e","s","\"",",","\"","t","i","t","l","e","\"",":","\"","A","l","l"," ","P","a","g","e","s","\"","}">>
        /\ \A j \in 1..Len(PagePositions(index)) :
              OutputLines(pages.s)[j + 1] \o <<"\n">>
                 = PagesRecord(PagePositions(index)[j] - 1, index[PagePositions(index)[j]])
        /\ pages.s[Len(pages.s)] # "\n"

C10_Witness ==
    /\ pages.tag = "Returned"
    /\ Len(index) >= 2
    /\ index[1].is_page
    /\ ~index[2].is_page
    /\ Len(OutputLines(pages.s)) = 2

\* The positions in the file of the records indexer retained, in order
RetainedPositions ==
    SelectSeq([k \in 1..Len(scanned) |-> k], LAMBDA k : PassesFilter(scanned[k]))

\* The l-th page of the list: its position in the list and in the file
PageInList(l) == PagePositions(index)[l]
PageInFile(l) == RetainedPositions[PageInList(l)]

\* C11: the id of a pages line is the zero-based position of its record in
\* the whole list given to to_pages_json_string, and ts is the WARC-Date of
\* the record as the file has it; the ids of the output increase strictly.
C11_PagesIdAndTs ==
    pages.tag = "Returned" =>
        /\ Len(OutputLines(pages.s)) = 1 + Len(PagePositions(index))
        /\ \A l \in 1..Len(PagePositions(index)) :
              OutputLines(pages.s)[l + 1]
                 = Concat(<<<<"{","\"","i","d","\"",":","\"">>, Decimal(PageInList(l) - 1),
                            <<"\"",",","\"","u","r","l","\"",":","\"">>, index[PageInList(l)].url,
                            <<"\"",",","\"","t","s","\"",":","\"">>, file.recs[PageInFile(l)].date, <<"\"","}">>>>)
        /\ \A l \in 1..(Len(PagePositions(index)) - 1) : PageInList(l) < PageInList(l + 1)

\* A page that follows a record that is no page, dated with an offset
C11_Witness ==
    /\ pages.tag = "Returned"
    /\ Len(index) = 2
    /\ ~index[1].is_page
    /\ index[2].is_page
    /\ EndsWith(index[2].timestamp, <<"+","0","1",":","0","0">>)
    /\ OutputLines(pages.s)[2][8] = "1"

\* The text is no URL of scheme http or https
NoHttpScheme(u) == ~StartsWith(u, <<"h","t","t","p",":","/","/">>) /\ ~StartsWith(u, <<"h","t","t","p","s",":","/","/">>)

\* C12: on a urn: URL and on text without an http or https scheme both
\* create_surt functions return None and fail in no other way.
C12_AbsentWithoutHttpScheme ==
    NoHttpScheme(input_url) =>
        /\ surt_indexer.tag \in {"NotCalled", "None"}
        /\ surt_rs.tag \in {"NotCalled", "None"}

\* The key of an http or https URL from its parts: the labels of the host
\* reversed and joined by commas, ")/", then what follows the first "/"
\* after the host (nothing when there is no "/")
ExpectedKey(u) ==
    Concat(<<Join(Reverse(u.labels), <<",">>), <<")","/">>,
             IF u.rest = <<>> THEN <<>> ELSE SubSeq(u.rest, 2, Len(u.rest))>>)

\* The result is the key, whatever the case of its letters
IsKey(result, key) ==
    result.tag = "Some" /\ ToAsciiLowercase(result.v) = ToAsciiLowercase(key)

\* C13: for an http or https URL with host h1.h2...hn both create_surt
\* functions give hn,...,h2,h1)/ followed by the rest of the URL, the rest
\* being empty when no "/" follows the host.
C13_KeyOfHttpUrl ==
    \A u \in HttpUrlParts :
        UrlText(u) = input_url =>
            /\ surt_indexer.tag # "NotCalled" => IsKey(surt_indexer, ExpectedKey(u))
            /\ surt_rs.tag # "NotCalled" => IsKey(surt_rs, ExpectedKey(u))

\* C14: a key the SURT encoders return is entirely lowercase.
C14_KeyIsLowercase ==
    /\ surt_indexer.tag = "Some" => surt_indexer.v = ToAsciiLowercase(surt_indexer.v)
    /\ surt_rs.tag = "Some" => surt_rs.v = ToAsciiLowercase(surt_rs.v)
    /\ searchable.tag = "Ok" => searchable.v = ToAsciiLowercase(searchable.v)

\* C15: when the file at the path does not exist the run neither aborts
\* (a panic) nor goes on to scan and return a list of records: all that is
\* left to it is to hand an error value to the caller.
C15_MissingFileIsAnError ==
    ~file.exists => pc \notin {"panic", "scan", "indexed"}

\* The record is corrupt: its frame does not begin with WARC/1.1, or the
\* file ends before one of its header blocks does
Corrupt(d) == d.version # <<"W","A","R","C","/","1",".","1">> \/ d.cut > 0

\* C16: when a record of the file is corrupt the run ends with an error:
\* indexer does not return a list, which would lack that record and every
\* record after it.
C16_CorruptRecordIsAnError ==
    IndexerReturned => \A k \in 1..Len(file.recs) : ~Corrupt(file.recs[k])

\* The record that was being read when the scan stopped
RecordInHand == file.recs[Len(scanned) + 1]

\* The scan was aborted by a panic while it read a record
ScanPanicked ==
    /\ pc = "panic"
    /\ file.exists
    /\ cdxj.tag # "Panic"
    /\ Len(scanned) < Len(file.recs)

\* The three bytes at [9..12) of the record's HTTP header block, when the
\* record has one
HasStatusLine(d) == StartsWith(d.payload, <<"H","T","T","P","/">>) /\ Len(d.payload) >= 12
StatusText(d) == SubSeq(d.payload, 10, 12)

IsStatusCode(text) ==
    /\ \A i \in 1..Len(text) : IsDigit(text[i])
    /\ DigitsValue(text) \in 100..599

\* C17: the http_status_code of a record with an HTTP block is the decimal
\* number at bytes [9..12) of the block and lies in 100..599; a block whose
\* bytes there are anything else gives no record and no panic.
C17_StatusCodeChecked ==
    /\ \A k \in 1..Len(scanned) :
          HasHttpBlock(scanned[k]) =>
              /\ IsStatusCode(StatusText(file.recs[k]))
              /\ scanned[k].http_status_code = DigitsValue(StatusText(file.recs[k]))
    /\ ScanPanicked =>
          ~(HasStatusLine(RecordInHand) /\ ~IsStatusCode(StatusText(RecordInHand)))

\* A header line of the record has no ":" or its Content-Length is no
\* non-negative integer
HttpHeaderLines(d) == Skip1(Lines(Trim(read_header_block(d.payload, 1).buf)))

MalformedHeaderLine(d) ==
    \/ \E i \in 1..Len(Lines(d.extra)) : Find(Lines(d.extra)[i], ":") = 0
    \/ \E i \in 1..Len(d.length) : ~IsDigit(d.length[i])
    \/ /\ HasStatusLine(d)
       /\ \E i \in 1..Len(HttpHeaderLines(d)) : Find(HttpHeaderLines(d)[i], ":") = 0

\* C18: a header line without ":" and a Content-Length that is no
\* non-negative integer abort the parsing of the record with an error value:
\* no panic, and no record for it.
C18_MalformedHeaderLineIsAnError ==
    /\ ScanPanicked => ~MalformedHeaderLine(RecordInHand)
    /\ \A k \in 1..Len(scanned) : ~MalformedHeaderLine(file.recs[k])

\* C19: every record of the list indexer returns has a url that parses and
\* has a host, none has a urn url, and create_surt gives a key for each.
C19_RetainedUrlHasHost ==
    IndexerReturned =>
        \A i \in 1..Len(index) :
            /\ UrlParse(index[i].url).has_host
            /\ ~StartsWith(index[i].url, <<"u","r","n">>)
            /\ create_surt(index[i].url).tag = "Some"

\* C20: every record of the list indexer returns has a timestamp that parses
\* as RFC 3339: a record without a WARC-Date, or with one that does not
\* parse, does not reach the writers.
C20_RetainedTimestampParses ==
    IndexerReturned =>
        \A i \in 1..Len(index) : ParseFromRfc3339(index[i].timestamp).ok

\* C21: the process exits with status 0 only when the path argument was
\* supplied and tests/output.wacz has been written; a missing argument, like
\* any error, gives a status other than 0.
C21_ExitZeroOnlyWhenWritten == exit_status = 0 => (argument /\ written)

Contains(s, sub) ==
    \E i \in 1..(Len(s) - Len(sub) + 1) : SubSeq(s, i, i + Len(sub) - 1) = sub

\* The file holds the record of valid_page_record
HoldsReviewPage == \E k \in 1..Len(file.recs) : [file.recs[k] EXCEPT !.csize = 0] = ReviewPage

\* C23: the resource record of 2025-08-06T14:37:28+01:00 for
\* https://thehtml.review/04/ascii-bedroom-archive/ with HTTP status 200 and
\* Content-Type text/html gives a pages line with that url and the timestamp
\* in UTC, "ts":"2025-08-06T13:37:28Z".
C23_ResourceRecordIsAPage ==
    (pages.tag = "Returned" /\ HoldsReviewPage) =>
        \E l \in 1..Len(OutputLines(pages.s)) :
            /\ Contains(OutputLines(pages.s)[l],
                        <<"\"","u","r","l","\"",":","\"","h","t","t","p","s",":","/","/","t","h","e","h","t","m","l",".","r","e","v","i","e","w","/","0","4","/","a","s","c","i","i","-","b","e","d","r","o","o","m","-","a","r","c","h","i","v","e","/","\"">>)
            /\ Contains(OutputLines(pages.s)[l], <<"\"","t","s","\"",":","\"","2","0","2","5","-","0","8","-","0","6","T","1","3",":","3","7",":","2","8","Z","\"">>)

\* PageRecord::new has returned
PageRecordReturned == page_record.tag # "NotCalled"

\* The record given to PageRecord::new is of a page type, with a page media
\* type and status 200
Indexable(record) ==
    /\ record.warc_type \in {"Response", "Revisit", "Resource"}
    /\ record.mime.ok
    /\ record.mime.v \in {<<"t","e","x","t","/","h","t","m","l">>, <<"a","p","p","l","i","c","a","t","i","o","n","/","x","h","t","m","l","+","x","m","l">>, <<"t","e","x","t","/","p","l","a","i","n">>}
    /\ record.status.ok
    /\ record.status.v = 200

C25_DroppedRecordsKeepOffsets ==
    /\ \A i \in 1..Len(index) :
          /\ index[i] = scanned[RetainedPositions[i]]
          /\ index[i].offset = PhysicalStart(file, RetainedPositions[i])
    /\ \A k \in 2..Len(scanned) :
          ~PassesFilter(scanned[k - 1]) => scanned[k].offset = PhysicalStart(file, k)

C25_Witness ==
    /\ IndexerReturned
    /\ Len(scanned) = 2
    /\ Len(index) = 1
    /\ ~PassesFilter(scanned[1])
    /\ index[1].offset = scanned[2].offset
    /\ index[1].offset > 0

\* The record of the file that scanned[k] was read from declares a WARC
\* Content-Type beginning with application/http
DeclaresHttp(k) == StartsWith(file.recs[k].ctype, <<"a","p","p","l","i","c","a","t","i","o","n","/","h","t","t","p">>)

\* C26: the HTTP header block of a record is parsed exactly when its WARC
\* Content-Type begins with application/http and its WARC-Type is response or
\* revisit; every other record keeps http_status_code 0 and an empty
\* mime_type, and a record whose block was parsed has a status other than 0.
C26_HttpBlockParsedIff ==
    \A k \in 1..Len(scanned) :
        /\ HasHttpBlock(scanned[k])
              <=> (DeclaresHttp(k) /\ file.recs[k].wtype \in {<<"r","e","s","p","o","n","s","e">>, <<"r","e","v","i","s","i","t">>})
        /\ ~HasHttpBlock(scanned[k]) =>
              scanned[k].http_status_code = 0 /\ scanned[k].mime_type = <<>>
        /\ HasHttpBlock(scanned[k]) => scanned[k].http_status_code # 0

\* A member of a gzip file that holds more than one record, or a record of
\* WARC/1.0
Unsupported(d) == d.more # <<>> \/ d.version = <<"W","A","R","C","/","1",".","0">>

\* C27: in a gzip file no record is taken from a member that holds more than
\* one record or from a WARC/1.0 record, and indexer returns no list for a
\* file with such a member: it is rejected as MalformedRecord.
C27_MultiRecordMemberRejected ==
    is_gzip =>
        /\ \A k \in 1..Len(scanned) : ~Unsupported(file.recs[k])
        /\ IndexerReturned => \A k \in 1..Len(file.recs) : ~Unsupported(file.recs[k])

\* indexer is no longer in its loop: it returned its list, or it panicked
IndexerEnded == pc \in {"indexed", "panic"}

\* One step of the run keeps the order of the cursor: file_offset does not
\* decrease, it increases when a record is yielded, and at or past the end
\* of the file the step is the None that ends the loop
CursorAdvances ==
    /\ file_offset' >= file_offset
    /\ Len(scanned') > Len(scanned) => file_offset' > file_offset
    /\ (pc = "scan" /\ file_offset >= file_size) =>
          pc' = "indexed" /\ scanned' = scanned /\ file_offset' = file_offset

NoEmptyLine(payload) == ~read_header_block(payload, 1).some

\* The number of bytes of the file the reader has consumed when the HTTP
\* header block of the k-th record is read
HttpBlockEnd(k) ==
    read_header_block(PlainBytes(file),
                      PhysicalStart(file, k) + scanned[k].header_length + 1).next - 1

\* What the HTTP header block gives when it is read from the bytes of the
\* k-th record alone
OwnHttp(k) ==
    process_headers(IndexRecordNew,
                    read_header_block(RecordBytes(file.recs[k]),
                                      scanned[k].header_length + 1).buf).rec

ResourceOrMetadata(d) == d.wtype \in {<<"r","e","s","o","u","r","c","e">>, <<"m","e","t","a","d","a","t","a">>}

\* The url member of a line of the outputs
UrlMember(uri) == Concat(<<<<"\"","u","r","l","\"",":","\"">>, uri, <<"\"">>>>)

\* No other record of the file has the URL of the k-th
OnlyUrlOf(k) == \A j \in 1..Len(file.recs) : j # k => file.recs[j].uri # file.recs[k].uri

====
